---- MODULE Spec2Model ----
(***************************************************************************)
(* Host / HostFacts of pyinfra/api/host.py as a state machine.             *)
(*                                                                         *)
(* Several logical callers (workers, greenlets) call the methods of the    *)
(* Hosts of one run.  Host.connect is not atomic: while a caller waits for  *)
(* the connector's connect, after its test of self.connection, other       *)
(* callers run.  The other methods make one delegating call and are        *)
(* modelled as one step.                                                   *)
(*                                                                         *)
(* The connector (pyinfra.api.connectors) and the fact registry / cache    *)
(* (pyinfra.api.facts) are collaborators of host.py; their behaviour is    *)
(* modelled from the specification of their contracts.                     *)
(***************************************************************************)
EXTENDS Integers, Sequences, FiniteSets, TLC

\* ---------------------------------------------------------------- bounds
\* Cap on the number of connector-connect attempts made in one run.
MaxConnects == 2

\* ------------------------------------------------------------- universe
Hosts == {"web1", "web2"}
Callers == {"c1", "c2"}

\* HostFacts() built with host=None (the class-level placeholder facade).
NoHost == "<no host>"

\* Host.connection = None
NoConnection == 0

\* Fact Registry: registered identifiers, and those with create/delete.
FactNames == {"os_version", "deb_packages"}
MutableFacts == {"deb_packages"}
UnknownKey == "nonexistent_fact"
Keys == FactNames \cup {UnknownKey}

\* for_fact=None
NoFact == ""

\* Fact cache miss marker and argument values passed through by callers.
NoValue == ""
ArgValues == {"a1", "a2"}

\* Connectors: the default remote-shell connector has no teardown
\* operation, the container connector has one.
Connectors == {"ssh", "docker"}
DefaultExecutor(h) == IF h = "web2" THEN "docker" ELSE "ssh"

\* a connector_data mapping kept on the class, one for all Hosts
DataOfClass(h) == "web1"

\* line 80: the Host whose connector_data mapping Host h holds: each
\* instance is given a mapping of its own
DataOf(h) == h

\* line 77: the Host that the facade h.fact is bound to
FactOf(h) == h

\* Outcomes of one connector-connect attempt: a handle, a ConnectError
\* carrying a reason, or an error of another class.
ConnectErrorReasons == {"timeout"}
Outcomes == {"ok", "other"} \cup ConnectErrorReasons

VARIABLES
    state,        \* Host.state: is a run-state assigned
    executor,     \* Host.executor: the connector of the Host
    connection,   \* Host.connection: NoConnection or a handle
    connHist,     \* connector side: outcomes of the connect attempts per Host
    closed,       \* connector side: handles torn down by disconnect
    log,          \* logger output, per Host prefix
    cache,        \* fact cache of the run-state, per Host and identifier
    connector_data, \* Host.connector_data: what the connector keeps per Host
    pc,           \* position of each caller
    call,         \* the call each caller is executing
    effects,      \* what the current call of each caller did so far
    overlapped    \* did the current call overlap another connect on its Host

vars == <<state, executor, connection, connHist, closed, log, cache,
          connector_data, pc, call, effects, overlapped>>

hostVars == <<state, executor, connection, connHist, closed, log, cache,
              connector_data>>

\* ------------------------------------------------------------- helpers
NoCall ==
    [op |-> "none", host |-> NoHost, key |-> NoFact, for_fact |-> NoFact,
     show_errors |-> TRUE, arg |-> "", bound |-> FALSE, seen |-> NoConnection,
     lines |-> 0, attempts |-> 0, cached |-> NoValue,
     res |-> "", got |-> NoConnection, handle |-> NoConnection,
     result |-> "", value |-> "", names |-> {}]

NewCall(op, h, key, ff, show, arg) ==
    [NoCall EXCEPT !.op = op, !.host = h, !.key = key, !.for_fact = ff,
                   !.show_errors = show, !.arg = arg,
                   !.bound = IF h = NoHost THEN FALSE ELSE state[h],
                   !.seen = IF h = NoHost THEN NoConnection ELSE connection[h],
                   !.lines = IF h = NoHost THEN 0 ELSE Len(log[h]),
                   !.attempts = IF h = NoHost THEN 0 ELSE Len(connHist[h]),
                   !.cached = IF h = NoHost \/ key \notin FactNames
                              THEN NoValue ELSE cache[h][key]]

\* An entry of effects: a connector or registry invocation, a log line,
\* or a store to Host.connection.
Effect(kind, h, st, what, n) ==
    [kind |-> kind, host |-> h, state |-> st, what |-> what, n |-> n]

\* Host.print_prefix + text (+ suffix) as one line
LogLine(h, level, text, suffix) ==
    [prefix |-> h, level |-> level, text |-> text, suffix |-> suffix]

\* Calls that run Host.connect: connect itself and a fact read.
ConnectOps == {"connect", "read"}

\* Callers inside Host.connect of host h, waiting for the connector
Connecting(h) ==
    {d \in Callers : pc[d] = "call" /\ call[d].host = h}

\* All callers are between calls.
Quiet == \A d \in Callers : pc[d] = "idle"

\* Scheduling.  A caller that finished its call takes the result before any
\* call begins (CanBegin); while a call that overlapped another connect on
\* its Host waits to be taken, only the connects in flight go on (Settled).
\* Return changes only the caller's own record, so no behaviour of the Hosts
\* is lost.  The one-step calls (disconnect, dispatch, fact create / delete,
\* dir) begin when all callers are between calls (Quiet): they neither write
\* what the entry of Host.connect reads nor read what a caller in flight
\* holds, so they commute with the steps in flight.
CanBegin(c) ==
    /\ pc[c] = "idle"
    /\ \A d \in Callers : pc[d] # "done"

Settled ==
    \A d \in Callers : pc[d] = "done" => overlapped[d]

\* Connector-connect attempts of the run, finished or begun
AttemptsOf(h) == Len(connHist[h]) + Cardinality(Connecting(h))

RECURSIVE AttemptsIn(_)
AttemptsIn(S) ==
    IF S = {} THEN 0
    ELSE LET h == CHOOSE x \in S : TRUE IN AttemptsOf(h) + AttemptsIn(S \ {h})

Attempts == AttemptsIn(Hosts)

\* is_fact that knows every identifier
IsFactAny(key) == TRUE

\* facts.is_fact
IsFact(key) == key \in FactNames

\* HostFacts._check_host: does it pass
CheckHost(h) == h # NoHost

\* _check_state that lets a Host without run-state through
CheckStateSkipped(h) == TRUE

\* Host._check_state: does it pass
CheckState(h) == state[h]

\* connect that does not look at the stored handle
NotConnectedIgnored(h) == TRUE

\* line 115: `if not self.connection`
NotConnected(h) == connection[h] = NoConnection

\* an `except` that catches every error of the connector
IsConnectErrorAny(o) == TRUE

\* line 118: `except ConnectError`: is the connector's failure caught
IsConnectError(o) == o \in ConnectErrorReasons

\* error reporting that ignores show_errors
ShowErrorAlways(k) == TRUE

\* line 119: `if show_errors`
ShowError(k) == k.show_errors

\* a success line that never names the fact
FactSuffixNever(k) == NoFact

\* line 130: `if for_fact`: the suffix of the success line
FactSuffix(k) == IF k.for_fact # NoFact THEN k.for_fact ELSE NoFact

\* a fact read that goes on without a handle
NoHandleIgnored(conn) == FALSE

\* line 40: `if not connection`
NoHandle(conn) == conn = NoConnection

\* ------------------------------------------------------------- initial
Init ==
    /\ state = [h \in Hosts |-> FALSE]
    /\ executor = [h \in Hosts |-> DefaultExecutor(h)]
    /\ connection = [h \in Hosts |-> NoConnection]
    /\ connHist = [h \in Hosts |-> <<>>]
    /\ closed = [h \in Hosts |-> {}]
    /\ log = [h \in Hosts |-> <<>>]
    /\ cache = [h \in Hosts |-> [f \in FactNames |-> NoValue]]
    /\ connector_data = [h \in Hosts |-> {}]
    /\ pc = [c \in Callers |-> "idle"]
    /\ call = [c \in Callers |-> NoCall]
    /\ effects = [c \in Callers |-> <<>>]
    /\ overlapped = [c \in Callers |-> FALSE]

\* The orchestrator assigns the shared run-state to a Host.
BindState(h) ==
    /\ Quiet
    /\ ~state[h]
    /\ state' = [state EXCEPT ![h] = TRUE]
    /\ UNCHANGED <<executor, connection, connHist, closed, log, cache,
                   connector_data,
                   pc, call, effects, overlapped>>

\* ------------------------------------------------- connector (contract)
\* Connector.connect(run-state, host): the handle a successful attempt
\* returns; the n-th attempt for a Host yields handle n of that Host.
ExecutorConnect(h, outcome) ==
    IF outcome = "ok" THEN Len(connHist[h]) + 1 ELSE NoConnection

\* a disconnect that calls the teardown without looking for it
HasDisconnectAssumed(e) == TRUE

\* getattr(self.executor, 'disconnect', None): is there a teardown
HasDisconnect(e) == e = "docker"

\* Connector.disconnect(run-state, host): tears down the Host's live
\* connection; it does not write Host.connection.
ExecutorDisconnect(h) ==
    IF connection[h] = NoConnection THEN closed[h]
    ELSE closed[h] \cup {connection[h]}

\* Connector.run_shell_command / put_file / get_file: the result handed back
ExecutorResult(op, arg) == op

\* ------------------------------------------------- fact registry (contract)
\* The value the registered fetch operation reads from the remote side.
FetchValue(h, key) ==
    IF key = "os_version" THEN "linux-6.1" ELSE "packages"

\* Results the registry may give when handed no run-state.
NoStateResults == {"returned", "RegistryError"}

\* ------------------------------------------------------------- Host.connect
\* facts.get_host_fact(run-state, host, key): the cached value, else the
\* value the fetch operation reads, which is then cached.
CacheHit(h, key) == cache[h][key] # NoValue

GetHostFact(h, key) ==
    IF CacheHit(h, key) THEN cache[h][key] ELSE FetchValue(h, key)

\* Host.connect returns conn to its caller: the call is finished, or, in a
\* fact read, lines 40-45 go on with it.  eff: what the call did so far.
ReturnFromConnect(c, k, conn, eff) ==
    LET h == k.host IN
    /\ pc' = [pc EXCEPT ![c] = "done"]
    /\ IF k.op = "connect"
       THEN /\ call' = [call EXCEPT ![c] =
                   [k EXCEPT !.handle = conn, !.result = "returned"]]
            /\ effects' = [effects EXCEPT ![c] = eff]
            /\ UNCHANGED cache
       ELSE IF NoHandle(conn)
       THEN /\ call' = [call EXCEPT ![c] =
                   [k EXCEPT !.handle = conn, !.result = "FactUnavailableError"]]
            /\ effects' = [effects EXCEPT ![c] = eff]
            /\ UNCHANGED cache
       ELSE /\ call' = [call EXCEPT ![c] =
                   [k EXCEPT !.handle = conn, !.result = "returned",
                             !.value = GetHostFact(h, k.key)]]
            /\ cache' = [cache EXCEPT ![h][k.key] = GetHostFact(h, k.key)]
            /\ effects' = [effects EXCEPT ![c] =
                   IF CacheHit(h, k.key) THEN eff
                   ELSE Append(eff, Effect("fetch", h, state[h], k.key, conn))]

\* Entry of Host.connect, lines 114-117: _check_state, then
\* `if not self.connection`: begin the connector's connect, else return the
\* stored handle (line 138).  k is the call record of caller c.
EnterConnect(c, k) ==
    LET h == k.host
        others == Connecting(h) \ {c}
    IN  IF ~CheckState(h)
        THEN /\ pc' = [pc EXCEPT ![c] = "done"]
             /\ call' = [call EXCEPT ![c] = [k EXCEPT !.result = "PreconditionError"]]
             /\ effects' = [effects EXCEPT ![c] = <<>>]
             /\ UNCHANGED <<cache, overlapped>>
        ELSE /\ IF NotConnected(h)
                THEN /\ Attempts < MaxConnects
                     /\ pc' = [pc EXCEPT ![c] = "call"]
                     /\ call' = [call EXCEPT ![c] = k]
                     /\ effects' = [effects EXCEPT ![c] = <<>>]
                     /\ UNCHANGED cache
                ELSE ReturnFromConnect(c, k, connection[h], <<>>)
             /\ overlapped' = [d \in Callers |->
                    IF others # {} /\ d \in others \cup {c} THEN TRUE
                    ELSE IF d = c THEN FALSE ELSE overlapped[d]]

\* host.connect(for_fact, show_errors)
HostConnect(c, h, ff, show) ==
    /\ CanBegin(c)
    /\ EnterConnect(c, NewCall("connect", h, NoFact, ff, show, ""))
    /\ UNCHANGED <<state, executor, connection, connHist, closed, log,
                   connector_data>>

\* lines 117-138: the connector's connect begun on entry completes: store
\* the handle and log, or log the ConnectError, and return self.connection;
\* an error of another class leaves connect.
ConnectComplete(c) ==
    /\ Settled
    /\ pc[c] = "call"
    /\ \E o \in Outcomes :
       LET h == call[c].host
           got == ExecutorConnect(h, o)
           k == [call[c] EXCEPT !.res = o, !.got = got]
           attempt == Effect("connect", h, state[h], o, got)
           okLine == LogLine(h, "info", "Connected", FactSuffix(k))
           errLine == LogLine(h, "error", o, NoFact)
       IN  /\ connHist' = [connHist EXCEPT ![h] = Append(@, o)]
           /\ IF o = "ok"
              THEN /\ connection' = [connection EXCEPT ![h] = got]
                   /\ connector_data' = [connector_data EXCEPT
                          ![DataOf(h)] = @ \cup {got}]
                   /\ log' = [log EXCEPT ![h] = Append(@, okLine)]
                   /\ ReturnFromConnect(c, k, connection'[h],
                          << attempt,
                             Effect("store", h, state[h], "connection", got),
                             Effect("log", h, state[h], "Connected", 0) >>)
              ELSE IF IsConnectError(o)
              THEN /\ log' = [log EXCEPT ![h] =
                          IF ShowError(k) THEN Append(@, errLine) ELSE @]
                   /\ UNCHANGED <<connection, connector_data>>
                   /\ ReturnFromConnect(c, k, connection[h],
                          IF ShowError(k)
                          THEN << attempt, Effect("log", h, state[h], o, 0) >>
                          ELSE << attempt >>)
              ELSE /\ effects' = [effects EXCEPT ![c] = << attempt >>]
                   /\ pc' = [pc EXCEPT ![c] = "done"]
                   /\ call' = [call EXCEPT ![c] = [k EXCEPT !.result = "OtherError"]]
                   /\ UNCHANGED <<connection, connector_data, log, cache>>
    /\ UNCHANGED <<state, executor, closed, overlapped>>

\* ------------------------------------------------------------- HostFacts
\* a read that looks the identifier up before it looks for its Host
FactReadFactFirst(c, h, key) ==
    /\ CanBegin(c)
    /\ LET k == NewCall("read", h, key, key, TRUE, "") IN
       IF ~IsFact(key)
       THEN /\ pc' = [pc EXCEPT ![c] = "done"]
            /\ call' = [call EXCEPT ![c] = [k EXCEPT !.result = "UnknownFactError"]]
            /\ effects' = [effects EXCEPT ![c] = <<>>]
            /\ UNCHANGED <<cache, overlapped>>
       ELSE IF ~CheckHost(h)
       THEN /\ pc' = [pc EXCEPT ![c] = "done"]
            /\ call' = [call EXCEPT ![c] = [k EXCEPT !.result = "PreconditionError"]]
            /\ effects' = [effects EXCEPT ![c] = <<>>]
            /\ UNCHANGED <<cache, overlapped>>
       ELSE EnterConnect(c, k)
    /\ UNCHANGED <<state, executor, connection, connHist, closed, log,
                   connector_data>>

\* host.fact.<key>, lines 29-45
FactRead(c, h, key) ==
    /\ CanBegin(c)
    /\ LET k == NewCall("read", h, key, key, TRUE, "") IN
       IF ~CheckHost(h)
       THEN /\ pc' = [pc EXCEPT ![c] = "done"]
            /\ call' = [call EXCEPT ![c] = [k EXCEPT !.result = "PreconditionError"]]
            /\ effects' = [effects EXCEPT ![c] = <<>>]
            /\ UNCHANGED <<cache, overlapped>>
       ELSE IF ~IsFact(key)
       THEN /\ pc' = [pc EXCEPT ![c] = "done"]
            /\ call' = [call EXCEPT ![c] = [k EXCEPT !.result = "UnknownFactError"]]
            /\ effects' = [effects EXCEPT ![c] = <<>>]
            /\ UNCHANGED <<cache, overlapped>>
       ELSE EnterConnect(c, k)
    /\ UNCHANGED <<state, executor, connection, connHist, closed, log,
                   connector_data>>

\* The caller takes the result of its call.
Return(c) ==
    /\ pc[c] = "done"
    /\ pc' = [pc EXCEPT ![c] = "idle"]
    /\ call' = [call EXCEPT ![c] = NoCall]
    /\ effects' = [effects EXCEPT ![c] = <<>>]
    /\ overlapped' = [overlapped EXCEPT ![c] = FALSE]
    /\ UNCHANGED hostVars

\* ------------------------------------------------------------- Host.disconnect
\* lines 140-145
HostDisconnect(c, h) ==
    /\ Quiet
    /\ LET k == NewCall("disconnect", h, NoFact, NoFact, TRUE, "") IN
       IF ~CheckState(h)
       THEN /\ call' = [call EXCEPT ![c] = [k EXCEPT !.result = "PreconditionError"]]
            /\ effects' = [effects EXCEPT ![c] = <<>>]
            /\ UNCHANGED closed
       ELSE IF HasDisconnect(executor[h])
       THEN /\ closed' = [closed EXCEPT ![h] = ExecutorDisconnect(h)]
            /\ call' = [call EXCEPT ![c] = [k EXCEPT !.result = "returned"]]
            /\ effects' = [effects EXCEPT ![c] =
                   << Effect("disconnect", h, state[h], "", connection[h]) >>]
       ELSE /\ call' = [call EXCEPT ![c] = [k EXCEPT !.result = "returned"]]
            /\ effects' = [effects EXCEPT ![c] = <<>>]
            /\ UNCHANGED closed
    /\ pc' = [pc EXCEPT ![c] = "done"]
    /\ UNCHANGED <<state, executor, connection, connHist, log, cache,
                   connector_data, overlapped>>

\* ------------------------------------------------------------- dispatch
\* a dispatch that passes a fixed argument instead of the caller's
PassArgsFixed(arg) == "a1"

\* `*args, **kwargs` handed on as given
PassArgs(arg) == arg

\* _check_state, then self.executor.<op>(self.state, self, *args, **kwargs)
Dispatch(c, h, op, arg) ==
    /\ Quiet
    /\ LET k == NewCall(op, h, NoFact, NoFact, TRUE, arg) IN
       IF ~CheckState(h)
       THEN /\ call' = [call EXCEPT ![c] = [k EXCEPT !.result = "PreconditionError"]]
            /\ effects' = [effects EXCEPT ![c] = <<>>]
       ELSE /\ call' = [call EXCEPT ![c] =
                   [k EXCEPT !.result = "returned", !.value = ExecutorResult(op, arg)]]
            /\ effects' = [effects EXCEPT ![c] =
                   << Effect(op, h, state[h], PassArgs(arg), connection[h]) >>]
    /\ pc' = [pc EXCEPT ![c] = "done"]
    /\ UNCHANGED <<hostVars, overlapped>>

\* lines 147-149
RunShellCommand(c, h, arg) == Dispatch(c, h, "run_shell_command", arg)

\* lines 151-153
PutFile(c, h, arg) == Dispatch(c, h, "put_file", arg)

\* lines 155-157
GetFile(c, h, arg) == Dispatch(c, h, "get_file", arg)

\* ------------------------------------------------------------- fact mutation
\* Registry create / delete for (run-state, host, key): needs the mutable
\* capability; drops the cached read of the key.
RegistryMutate(c, k) ==
    LET h == k.host IN
    IF ~state[h]
    THEN /\ \E r \in NoStateResults :
              call' = [call EXCEPT ![c] = [k EXCEPT !.result = r]]
         /\ UNCHANGED cache
    ELSE IF k.key \notin MutableFacts
    THEN /\ call' = [call EXCEPT ![c] = [k EXCEPT !.result = "UnsupportedOperationError"]]
         /\ UNCHANGED cache
    ELSE /\ call' = [call EXCEPT ![c] = [k EXCEPT !.result = "returned"]]
         /\ cache' = [cache EXCEPT ![h][k.key] = NoValue]

\* a facade whose create / delete return without reaching the registry
FacadeMutateDropped(c, h, op, key, data) ==
    /\ Quiet
    /\ LET k == NewCall(op, h, key, NoFact, TRUE, data) IN
       call' = [call EXCEPT ![c] = [k EXCEPT !.result =
                   IF CheckHost(h) THEN "returned" ELSE "PreconditionError"]]
    /\ effects' = [effects EXCEPT ![c] = <<>>]
    /\ pc' = [pc EXCEPT ![c] = "done"]
    /\ UNCHANGED <<hostVars, overlapped>>

\* _check_host, then the registry operation with self.host.state
FacadeMutate(c, h, op, key, data) ==
    /\ Quiet
    /\ LET k == NewCall(op, h, key, NoFact, TRUE, data) IN
       IF ~CheckHost(h)
       THEN /\ call' = [call EXCEPT ![c] = [k EXCEPT !.result = "PreconditionError"]]
            /\ effects' = [effects EXCEPT ![c] = <<>>]
            /\ UNCHANGED cache
       ELSE /\ RegistryMutate(c, k)
            /\ effects' = [effects EXCEPT ![c] =
                   << Effect(op, h, state[h], key, connection[h]) >>]
    /\ pc' = [pc EXCEPT ![c] = "done"]
    /\ UNCHANGED <<state, executor, connection, connHist, closed, log,
                   connector_data, overlapped>>

\* lines 47-49
FactCreate(c, h, key, data) == FacadeMutate(c, h, "create", key, data)

\* lines 51-53
FactDelete(c, h, key) == FacadeMutate(c, h, "delete", key, "")

\* lines 22-23: dir(facade), bound or not
FactDir(c, h) ==
    /\ Quiet
    /\ call' = [call EXCEPT ![c] =
           [NewCall("dir", h, NoFact, NoFact, TRUE, "") EXCEPT
               !.result = "returned", !.names = FactNames]]
    /\ effects' = [effects EXCEPT ![c] = <<>>]
    /\ pc' = [pc EXCEPT ![c] = "done"]
    /\ UNCHANGED <<hostVars, overlapped>>

\* ------------------------------------------------------------- system
Facades == {FactOf(h) : h \in Hosts} \cup {NoHost}

Next ==
    \/ \E h \in Hosts : BindState(h)
    \/ \E c \in Callers, h \in Hosts, ff \in {NoFact, "os_version"}, show \in BOOLEAN :
          HostConnect(c, h, ff, show)
    \/ \E c \in Callers : ConnectComplete(c)
    \/ \E c \in Callers, h \in Facades, key \in Keys : FactRead(c, h, key)
    \/ \E c \in Callers, h \in Hosts : HostDisconnect(c, h)
    \/ \E c \in Callers, h \in Hosts, arg \in ArgValues : RunShellCommand(c, h, arg)
    \/ \E c \in Callers, h \in Hosts, arg \in ArgValues : PutFile(c, h, arg)
    \/ \E c \in Callers, h \in Hosts, arg \in ArgValues : GetFile(c, h, arg)
    \/ \E c \in Callers, h \in Facades, key \in FactNames, data \in ArgValues :
          FactCreate(c, h, key, data)
    \/ \E c \in Callers, h \in Facades, key \in FactNames : FactDelete(c, h, key)
    \/ \E c \in Callers, h \in Facades : FactDir(c, h)
    \/ \E c \in Callers : Return(c)

Spec == Init /\ [][Next]_vars

\* Both Hosts built with the default executor: EXECUTION_CONNECTORS['ssh'],
\* one connector object shared by the two.
SharedInit ==
    /\ state = [h \in Hosts |-> FALSE]
    /\ executor = [h \in Hosts |-> "ssh"]
    /\ connection = [h \in Hosts |-> NoConnection]
    /\ connHist = [h \in Hosts |-> <<>>]
    /\ closed = [h \in Hosts |-> {}]
    /\ log = [h \in Hosts |-> <<>>]
    /\ cache = [h \in Hosts |-> [f \in FactNames |-> NoValue]]
    /\ connector_data = [h \in Hosts |-> {}]
    /\ pc = [c \in Callers |-> "idle"]
    /\ call = [c \in Callers |-> NoCall]
    /\ effects = [c \in Callers |-> <<>>]
    /\ overlapped = [c \in Callers |-> FALSE]

SharedSpec == SharedInit /\ [][Next]_vars

\* ------------------------------------------------------------- properties
Done(c) == pc[c] = "done"

\* Number of successful connector-connect attempts for h
OkCount(h) ==
    Cardinality({i \in 1..Len(connHist[h]) : connHist[h][i] = "ok"})

\* Number of success lines logged for h
SuccessLines(h) ==
    Cardinality({i \in 1..Len(log[h]) : log[h][i].text = "Connected"})

\* Effects of the current call of c of the given kinds
EffectsOf(c, kinds) ==
    {i \in 1..Len(effects[c]) : effects[c][i].kind \in kinds}

DispatchOps == {"run_shell_command", "put_file", "get_file"}

\* C1: with a connector that succeeds, the connector's connect is invoked
\* at most once for a Host, however the connect() calls interleave: no Host
\* sees two connections established.
C1_AtMostOneConnect ==
    \A h \in Hosts :
        (\A i \in 1..Len(connHist[h]) : connHist[h][i] = "ok")
            => Len(connHist[h]) <= 1

\* C2: connect() calls that ran concurrently on one Host all return the same
\* result, and once all of them have finished a returned handle is the
\* Host's stored connection.
C2_ConcurrentCallersAgree ==
    \A c, d \in Callers :
        ( /\ c # d /\ Done(c) /\ Done(d)
          /\ overlapped[c] /\ overlapped[d]
          /\ call[c].op = "connect" /\ call[d].op = "connect"
          /\ call[c].host = call[d].host
          /\ call[c].result = "returned" /\ call[d].result = "returned" )
        => /\ call[c].handle = call[d].handle
           /\ call[c].handle = connection[call[c].host]

\* C3: a connect() call on a Host that already holds a handle, with no other
\* connect in flight on that Host, returns that handle, makes no
\* connector-connect attempt, stores nothing and logs nothing; the success
\* lines of the Host stay one per established connection.
C3_ConnectIdempotent ==
    \A c \in Callers :
        ( /\ Done(c) /\ call[c].op = "connect"
          /\ call[c].bound /\ call[c].seen # NoConnection
          /\ ~overlapped[c] )
        => /\ call[c].result = "returned"
           /\ call[c].handle = call[c].seen
           /\ effects[c] = <<>>
           /\ connection[call[c].host] = call[c].seen
           /\ Len(log[call[c].host]) = call[c].lines
           /\ SuccessLines(call[c].host) = OkCount(call[c].host)
           /\ (OkCount(call[c].host) = 1 => SuccessLines(call[c].host) = 1)

C3_Witness ==
    \E c \in Callers :
        /\ Done(c) /\ call[c].op = "connect" /\ ~overlapped[c]
        /\ call[c].seen # NoConnection
        /\ call[c].handle = call[c].seen
        /\ SuccessLines(call[c].host) = 1

\* C4: on a Host with no run-state, connect, disconnect, run_shell_command,
\* put_file and get_file fail with the precondition error and do nothing:
\* no connector operation, no log line, no change of the connection.
C4_NoStateNoEffect ==
    /\ \A c \in Callers :
        ( /\ Done(c)
          /\ call[c].op \in {"connect", "disconnect"} \cup DispatchOps
          /\ ~call[c].bound )
        => /\ call[c].result = "PreconditionError"
           /\ effects[c] = <<>>
           /\ connection[call[c].host] = call[c].seen
           /\ Len(log[call[c].host]) = call[c].lines
    /\ \A h \in Hosts :
        ~state[h] => /\ connHist[h] = <<>> /\ log[h] = <<>>
                     /\ connection[h] = NoConnection /\ closed[h] = {}

C4_Witness ==
    \E c \in Callers :
        /\ Done(c) /\ call[c].op = "run_shell_command"
        /\ ~call[c].bound /\ call[c].result = "PreconditionError"

\* C5: on a Host with no run-state, reading a registered fact, create and
\* delete fail with the precondition error and never reach the registry's
\* fetch, create or delete.
C5_FactOpsNeedState ==
    \A c \in Callers :
        ( /\ Done(c) /\ call[c].op \in {"read", "create", "delete"}
          /\ call[c].host # NoHost /\ ~call[c].bound
          /\ call[c].key \in FactNames )
        => /\ call[c].result = "PreconditionError"
           /\ EffectsOf(c, {"fetch", "create", "delete"}) = {}

\* C6: a connect() call whose connector-connect fails with a ConnectError,
\* with no other connect in flight on the Host, returns none, leaves the
\* Host Disconnected and logs exactly one host-prefixed error line with the
\* reason when show_errors is true, none when it is false.
C6_ConnectErrorIsNone ==
    \A c \in Callers :
        ( /\ Done(c) /\ call[c].op = "connect"
          /\ call[c].res \in ConnectErrorReasons
          /\ ~overlapped[c] )
        => LET h == call[c].host
               n == Len(log[h])
           IN  /\ call[c].result = "returned"
               /\ call[c].handle = NoConnection
               /\ connection[h] = NoConnection
               /\ EffectsOf(c, {"store"}) = {}
               /\ IF call[c].show_errors
                  THEN /\ n = call[c].lines + 1
                       /\ log[h][n] = [prefix |-> h, level |-> "error",
                                       text |-> call[c].res, suffix |-> ""]
                  ELSE n = call[c].lines

C6_Witness ==
    \E c \in Callers :
        /\ Done(c) /\ call[c].op = "connect" /\ ~overlapped[c]
        /\ call[c].res = "timeout" /\ call[c].show_errors
        /\ call[c].handle = NoConnection
        /\ Len(log[call[c].host]) = call[c].lines + 1

\* C7: reading an identifier that is not registered, on a bound facade,
\* fails with the unknown-fact error whatever the state of the Host, before
\* any connect attempt: nothing is invoked, logged or stored.
C7_UnknownFactFirst ==
    \A c \in Callers :
        ( /\ Done(c) /\ call[c].op = "read"
          /\ call[c].host # NoHost /\ call[c].key \notin FactNames )
        => /\ call[c].result = "UnknownFactError"
           /\ effects[c] = <<>>
           /\ connection[call[c].host] = call[c].seen
           /\ Len(log[call[c].host]) = call[c].lines

C7_Witness ==
    \E c \in Callers :
        /\ Done(c) /\ call[c].op = "read" /\ call[c].key = UnknownKey
        /\ call[c].host # NoHost /\ call[c].bound
        /\ call[c].seen = NoConnection
        /\ call[c].result = "UnknownFactError"

\* C8: reading a registered fact on a Host with run-state whose connector
\* has failed every connect with a ConnectError fails with the
\* fact-unavailable error, without a fetch, and leaves the cache entry
\* empty; a fetch is made only by a read whose connect returned a handle.
C8_NoFetchWithoutHandle ==
    \A c \in Callers :
        /\ ( /\ Done(c) /\ call[c].op = "read"
             /\ call[c].host # NoHost /\ call[c].bound
             /\ call[c].key \in FactNames
             /\ \A i \in 1..Len(connHist[call[c].host]) :
                    connHist[call[c].host][i] \in ConnectErrorReasons )
           => /\ call[c].result = "FactUnavailableError"
              /\ EffectsOf(c, {"fetch"}) = {}
              /\ cache[call[c].host][call[c].key] = NoValue
        /\ EffectsOf(c, {"fetch"}) # {}
           => /\ call[c].op = "read"
              /\ call[c].handle # NoConnection
              /\ call[c].result = "returned"

C8_Witness ==
    \E c \in Callers :
        /\ Done(c) /\ call[c].op = "read" /\ call[c].bound
        /\ call[c].key \in FactNames
        /\ call[c].res = "timeout"
        /\ \A i \in 1..Len(connHist[call[c].host]) :
               connHist[call[c].host][i] \in ConnectErrorReasons
        /\ call[c].result = "FactUnavailableError"

\* C9: after disconnect() on a Connected Host the Host holds no handle, and
\* a later connect() returns a newly established handle, never one that
\* was torn down.
C9_ReconnectAfterDisconnect ==
    \A c \in Callers :
        /\ ( /\ Done(c) /\ call[c].op = "disconnect"
             /\ call[c].result = "returned" /\ call[c].seen # NoConnection )
           => connection[call[c].host] = NoConnection
        /\ ( /\ Done(c) /\ call[c].op = "connect"
             /\ call[c].result = "returned" /\ call[c].handle # NoConnection )
           => call[c].handle \notin closed[call[c].host]

\* C10 (as stated): every dispatch that reaches the connector or the
\* registry's fetch (run_shell_command, put_file, get_file, fetch) is
\* delivered while the Host holds a connection.
C10_DispatchAfterConnect ==
    \A c \in Callers :
        \A i \in EffectsOf(c, DispatchOps \cup {"fetch"}) :
            effects[c][i].n # NoConnection

\* C10 (amended): the fetch of a fact read is delivered only after a
\* connection was established for its Host and while the Host holds a
\* handle; run_shell_command, put_file and get_file are delivered whether
\* or not the Host is connected.
C10_FetchAfterConnect ==
    \A c \in Callers :
        \A i \in EffectsOf(c, {"fetch"}) :
            LET h == effects[c][i].host IN
            /\ effects[c][i].n # NoConnection
            /\ connection[h] # NoConnection
            /\ OkCount(h) >= 1
            /\ effects[c][i].state

C10_Witness ==
    \E c \in Callers :
        /\ Done(c) /\ call[c].op = "read"
        /\ EffectsOf(c, {"fetch"}) # {}
        /\ call[c].res = "ok"

\* C11: with run-state, run_shell_command, put_file and get_file each make
\* exactly one call of the connector operation of the same name, with the
\* run-state, the Host and the caller's arguments, and return its result,
\* connected or not; they make no connect attempt, log nothing and leave
\* the connection as it was.
C11_DispatchVerbatim ==
    \A c \in Callers :
        ( /\ Done(c) /\ call[c].op \in DispatchOps /\ call[c].bound )
        => /\ call[c].result = "returned"
           /\ call[c].value = ExecutorResult(call[c].op, call[c].arg)
           /\ effects[c] = << [kind |-> call[c].op, host |-> call[c].host,
                               state |-> TRUE, what |-> call[c].arg,
                               n |-> call[c].seen] >>
           /\ connection[call[c].host] = call[c].seen
           /\ Len(log[call[c].host]) = call[c].lines
           /\ Len(connHist[call[c].host]) = call[c].attempts

C11_Witness ==
    \E c \in Callers :
        /\ Done(c) /\ call[c].op = "put_file" /\ call[c].bound
        /\ call[c].arg = "a2" /\ call[c].seen = NoConnection
        /\ call[c].result = "returned"
        /\ Len(effects[c]) = 1

\* C12: with run-state, disconnect() returns normally in every Host state,
\* never connected and already disconnected included; a connector with a
\* teardown has it called exactly once per call with the run-state and the
\* Host, and with a connector without one the call invokes nothing and
\* changes nothing of the Host.
C12_DisconnectAlwaysLegal ==
    \A c \in Callers :
        ( /\ Done(c) /\ call[c].op = "disconnect" /\ call[c].bound )
        => /\ call[c].result = "returned"
           /\ connection[call[c].host] = call[c].seen
           /\ Len(log[call[c].host]) = call[c].lines
           /\ Len(connHist[call[c].host]) = call[c].attempts
           /\ IF executor[call[c].host] = "docker"
              THEN effects[c] = << [kind |-> "disconnect", host |-> call[c].host,
                                    state |-> TRUE, what |-> "",
                                    n |-> call[c].seen] >>
              ELSE effects[c] = <<>> /\ closed[call[c].host] = {}

C12_Witness ==
    \E c \in Callers :
        /\ Done(c) /\ call[c].op = "disconnect" /\ call[c].bound
        /\ executor[call[c].host] = "docker"
        /\ call[c].attempts = 0 /\ call[c].seen = NoConnection
        /\ call[c].result = "returned"
        /\ Len(effects[c]) = 1

\* C13: a read of a registered fact that finds a value stored for the same
\* Host and identifier by an earlier read returns that value, with no
\* fetch and no connect attempt: reading twice fetches at most once.
C13_SecondReadFromCache ==
    \A c \in Callers :
        ( /\ Done(c) /\ call[c].op = "read" /\ call[c].bound
          /\ call[c].cached # NoValue )
        => /\ call[c].result = "returned"
           /\ call[c].value = call[c].cached
           /\ effects[c] = <<>>
           /\ cache[call[c].host][call[c].key] = call[c].cached

C13_Witness ==
    \E c \in Callers :
        /\ Done(c) /\ call[c].op = "read" /\ call[c].bound
        /\ call[c].key = "os_version"
        /\ call[c].cached = "linux-6.1"
        /\ call[c].value = "linux-6.1"
        /\ effects[c] = <<>>
        /\ OkCount(call[c].host) = 1

\* C14: once create or delete has succeeded for a mutable fact, no value
\* stored for that Host and identifier before it is left, and the next read
\* on the Host finds none stored, fetches, and returns the fetched value.
C14_MutateInvalidates ==
    \A c \in Callers :
        /\ ( /\ Done(c) /\ call[c].op \in {"create", "delete"}
             /\ call[c].result = "returned" /\ call[c].bound )
           => /\ cache[call[c].host][call[c].key] = NoValue
              /\ effects[c] = << [kind |-> call[c].op, host |-> call[c].host,
                                  state |-> TRUE, what |-> call[c].key,
                                  n |-> call[c].seen] >>
        /\ ( /\ Done(c) /\ call[c].op = "read" /\ call[c].result = "returned"
             /\ call[c].cached = NoValue /\ ~overlapped[c] )
           => /\ \E i \in 1..Len(effects[c]) :
                    /\ effects[c][i].kind = "fetch"
                    /\ effects[c][i].host = call[c].host
                    /\ effects[c][i].what = call[c].key
              /\ call[c].value = FetchValue(call[c].host, call[c].key)

C14_Witness ==
    \E c \in Callers :
        /\ Done(c) /\ call[c].op = "create" /\ call[c].result = "returned"
        /\ call[c].key = "deb_packages"
        /\ call[c].cached = "packages"
        /\ cache[call[c].host]["deb_packages"] = NoValue

\* C15: on a facade bound to no Host, a read, a create and a delete each
\* fail with the precondition error before anything else is looked at or
\* called, for an unregistered identifier too, while dir() still returns
\* the registry's identifiers.
C15_UnboundFacade ==
    \A c \in Callers :
        ( Done(c) /\ call[c].host = "<no host>" )
        => /\ effects[c] = <<>>
           /\ call[c].op \in {"read", "create", "delete"}
              => call[c].result = "PreconditionError"
           /\ call[c].op = "dir"
              => call[c].result = "returned" /\ call[c].names = FactNames

C15_Witness ==
    \E c \in Callers :
        /\ Done(c) /\ call[c].host = "<no host>" /\ call[c].op = "read"
        /\ call[c].key \notin FactNames
        /\ call[c].result = "PreconditionError"

\* C16: a Host's connection changes only from none to a handle, in a
\* connect() whose connector connect succeeded, or from a handle to none,
\* in a disconnect(); nothing else changes it, and a stored handle is never
\* replaced by another handle.
C16_ConnectionTransitions ==
    [][ \A h \in Hosts :
          connection'[h] # connection[h]
          => \/ /\ connection[h] = NoConnection
                /\ connection'[h] # NoConnection
                /\ \E c \in Callers :
                      /\ pc[c] = "call" /\ pc'[c] = "done"
                      /\ call[c].op \in {"connect", "read"}
                      /\ call[c].host = h
                      /\ call'[c].res = "ok"
             \/ /\ connection[h] # NoConnection
                /\ connection'[h] = NoConnection
                /\ \E c \in Callers :
                      /\ pc[c] = "idle" /\ pc'[c] = "done"
                      /\ call'[c].op = "disconnect"
                      /\ call'[c].host = h ]_vars

\* The lines a finished call added to its Host's log when no other connect
\* ran beside it.
NewLines(c) ==
    SubSeq(log[call[c].host], call[c].lines + 1, Len(log[call[c].host]))

\* C17 as stated: with report-errors, a connect() adds one host-prefixed
\* line per connector connect attempt it makes, "Connected" or the failure
\* reason, none when it makes no attempt, and the line has the fact suffix
\* exactly when the connect was made for a fact.
C17_OneLinePerAttempt ==
    \A c \in Callers :
        ( /\ Done(c) /\ call[c].op \in ConnectOps /\ call[c].bound
          /\ call[c].show_errors /\ ~overlapped[c] )
        => /\ Len(NewLines(c)) = Cardinality(EffectsOf(c, {"connect"}))
           /\ \A i \in 1..Len(NewLines(c)) :
                 /\ NewLines(c)[i].prefix = call[c].host
                 /\ NewLines(c)[i].text =
                       IF call[c].res = "ok" THEN "Connected" ELSE call[c].res
                 /\ NewLines(c)[i].suffix # NoFact <=> call[c].for_fact # NoFact

\* C17, amended: with report-errors, an attempt that succeeds or fails with
\* a ConnectError adds exactly one host-prefixed line, "Connected" or the
\* failure reason; a connect() that makes no attempt, and an attempt that
\* fails with another error, add none; the success line has the suffix of
\* the fact the connect was made for, exactly when there is one, and an
\* error line never has a suffix.  On every Host the success lines are as
\* many as the successful attempts.
C17_LogLines ==
    /\ \A h \in Hosts :
          /\ SuccessLines(h) = OkCount(h)
          /\ \A i \in 1..Len(log[h]) : log[h][i].prefix = h
    /\ \A c \in Callers :
        ( /\ Done(c) /\ call[c].op \in ConnectOps /\ call[c].bound
          /\ call[c].show_errors )
        => /\ Cardinality(EffectsOf(c, {"log"})) =
                 IF EffectsOf(c, {"connect"}) # {} /\ call[c].res # "other"
                 THEN 1 ELSE 0
           /\ ~overlapped[c]
              => /\ Len(NewLines(c)) = Cardinality(EffectsOf(c, {"log"}))
                 /\ \A i \in 1..Len(NewLines(c)) :
                       NewLines(c)[i] =
                          IF call[c].res = "ok"
                          THEN [prefix |-> call[c].host, level |-> "info",
                                text |-> "Connected",
                                suffix |-> call[c].for_fact]
                          ELSE [prefix |-> call[c].host, level |-> "error",
                                text |-> call[c].res, suffix |-> NoFact]

C17_Witness ==
    \E c \in Callers :
        /\ Done(c) /\ call[c].op = "read" /\ call[c].bound
        /\ ~overlapped[c]
        /\ call[c].res = "timeout"
        /\ Len(NewLines(c)) = 1
        /\ NewLines(c)[1].text = "timeout"
        /\ NewLines(c)[1].suffix = NoFact
        /\ call[c].for_fact = call[c].key

\* C18: with two Hosts on one connector, a step of an operation on one
\* Host leaves the connection and the connector_data of the other Host as
\* they were, and the facade of each Host is bound to that Host.
C18_PerHostState ==
    [][ /\ \A h \in Hosts : FactOf(h) = h
        /\ \A c \in Callers :
              pc'[c] # pc[c]
              => LET h == IF pc[c] = "idle" THEN call'[c].host
                          ELSE call[c].host
                 IN  \A g \in Hosts \ {h} :
                        /\ connection'[g] = connection[g]
                        /\ connector_data'[g] = connector_data[g]
                        /\ cache'[g] = cache[g]
                        /\ log'[g] = log[g] ]_vars

C18_Witness ==
    /\ \A h, g \in Hosts : executor[h] = executor[g]
    /\ \E c \in Callers :
          /\ Done(c) /\ call[c].op = "read" /\ call[c].host = "web2"
          /\ call[c].result = "returned"
          /\ connection["web2"] # NoConnection
          /\ connector_data["web2"] = {connection["web2"]}
    /\ connection["web1"] = NoConnection
    /\ connector_data["web1"] = {}
    /\ state["web1"]

\* C19: when the connector's connect fails with an error that is not a
\* ConnectError, connect() does not turn it into none: the caller gets the
\* error, no line is logged, the Host stays Disconnected, and a fact read
\* that made the connect gets the same error and fetches nothing.
C19_OtherErrorPropagates ==
    \A c \in Callers :
        ( /\ Done(c) /\ call[c].op \in ConnectOps
          /\ call[c].res \notin {"", "ok"} \cup ConnectErrorReasons )
        => /\ call[c].result = "OtherError"
           /\ call[c].value = NoValue
           /\ effects[c] = << [kind |-> "connect", host |-> call[c].host,
                               state |-> TRUE, what |-> call[c].res,
                               n |-> NoConnection] >>
           /\ ~overlapped[c]
              => /\ connection[call[c].host] = NoConnection
                 /\ Len(log[call[c].host]) = call[c].lines
                 /\ cache[call[c].host] = [f \in FactNames |-> NoValue]

C19_Witness ==
    \E c \in Callers :
        /\ Done(c) /\ call[c].op = "read" /\ call[c].show_errors
        /\ call[c].res = "other"
        /\ call[c].result = "OtherError"
        /\ ~overlapped[c]
        /\ log[call[c].host] = <<>>

====
